---- MODULE Spec2Model ----
(***************************************************************************)
(* Resolution-and-annotation pipeline of src/content.js: the location      *)
(* cache, the rate-controlled request scheduler (processRequestQueue,      *)
(* makeLocationRequest), the visibility gate and the per-fragment          *)
(* annotation state machine (addFlagToUsername).                           *)
(*                                                                         *)
(* JavaScript runs one task at a time: a handler together with every       *)
(* promise continuation (microtask) it makes runnable is one atomic step;  *)
(* a step ends where the code awaits a timer or a transport response.      *)
(* Each action below is one such task.                                     *)
(***************************************************************************)
EXTENDS Integers, Sequences, FiniteSets, Bags, TLC

\* ---------------------------------------------------------------- constants
INITIAL_REQUEST_INTERVAL == 300
MAX_REQUEST_INTERVAL == 10000
MAX_CONCURRENT_REQUESTS == 2
RECOVERY_STEP == 100
REQUEST_TIMEOUT == 10000
CONTINUE_DELAY == 200
RATE_CHECK_MAX == 60000
WAIT_DELAY == 500
RESCAN_DELAY == 500
MUTATION_DELAY == 500
SAVE_DELAY == 5000
CACHE_EXPIRY_DAYS == 30
\* A point in time days * 24 * 60 * 60 * 1000 + ms after the epoch; 30 days of
\* milliseconds do not fit TLC's 32-bit integers, so the days are kept apart.
After(days, ms) == [days |-> days, ms |-> ms]

\* ------------------------------------------------------------------- bounds
\* Pool of request ids (requestId = Date.now() + Math.random() is unique per
\* request; an id is reused only once nothing refers to it any more).
MaxRequests == 3
\* Timers that may be pending when the page brings in a new fragment.
MaxTimers == 1
\* Clock reading at start-up and the horizon of the timed specification (ms).
StartTime == 20000
MaxElapsed == 12000
\* Scan timers of the mutation watcher that may be pending together.
MaxPendingScans == 2
\* Day of the start-up and the days the session may last beyond it.
StartDay == 40
MaxDays == 30

Fragments == {"f1", "f2", "f3"}
Names == {"carol", "bob", "dave"}
NullLoc == "null"
Locations == {"Japan", "Russia"}
\* getCountryFlag: the locations the flag table knows.
FlagLocations == {"Japan"}

VARIABLES
    timed,                  \* TRUE: Date.now() is the variable now; FALSE: every clock reading is unconstrained
    now,                    \* Date.now() in ms (stays 0 when not timed)
    day,                    \* whole days Date.now() has moved on beside that
    contextValid,           \* chrome.runtime.id is set (the extension context is valid)
    extensionEnabled,
    storage,                \* chrome.storage.local[CACHE_KEY]: sequence of [name, data] in key order
    shimmers,               \* elements that hold a [data-twitter-flag-shimmer] placeholder
    attached,               \* element objects currently in the document
    ident,                  \* extractUsername(element) of every element object
    article,                \* element.closest('article[data-testid="tweet"]'): the tweet the element is or lies in, "" when in none; the containers of one tweet enclose the same User-Name element
    tweets,                 \* per tweet article: the data-twitter-blocked attribute, the banner, the original children and the Hide buttons
    flagAdded,              \* element.dataset.flagAdded ("none" = not set)
    observed,               \* element.dataset.observed === 'true'
    gate,                   \* elements registered with visibilityObserver
    markers,                \* number of [data-twitter-flag] spans inserted for the element
    blockedCountries,       \* the block list
    processingUsernames,    \* the set of the same name
    locationCache,          \* the Map: a function from the cached names to entries
    saveTimeout,            \* saveCache.timeout is set
    requestQueue,           \* queue of [screenName, frag]; frag stands for the resolve closure
    isProcessingQueue,
    lastRequestTime,
    currentRequestInterval,
    activeRequests,
    rateLimitResetTime,     \* epoch seconds, 0 = none
    pending,                \* requests whose message handler is installed and whose promise is unsettled
    bridge,                 \* requests posted to the page script and not answered yet
    timers,                 \* bag of pending setTimeout callbacks
    window,                 \* the names put in the debounce window: from the put that armed the flush timer until its write is done (history variable)
    gateLog,                \* per element: how often a scan registered it with visibilityObserver and how often the observer handed it to addFlagToUsername (history variable)
    resumed,                \* the waiting fragments line 972 has handed to addFlagToUsername again (history variable)
    event                   \* the task that ran last (history variable)

vars == <<timed, now, day, contextValid, extensionEnabled, storage, shimmers, attached, ident,
          article, tweets, flagAdded, observed, gate, markers,
          blockedCountries, processingUsernames, locationCache, saveTimeout,
          requestQueue, isProcessingQueue, lastRequestTime,
          currentRequestInterval, activeRequests, rateLimitResetTime,
          pending, bridge, timers, window, gateLog, resumed, event>>

\* ------------------------------------------------------------------ helpers
Min(a, b) == IF a < b THEN a ELSE b
Max(a, b) == IF a > b THEN a ELSE b

Timer(kind, frag, id, delay) ==
    [kind |-> kind, frag |-> frag, id |-> id,
     due |-> IF timed THEN now + delay ELSE 0]

AddTimer(s, t) == [s EXCEPT !.timers = @ (+) SetToBag({t})]

CountKind(tm, kind) ==
    BagCardinality([t \in {u \in BagToSet(tm) : u.kind = kind} |-> tm[t]])

\* The mutable state a task works on, threaded through the operators below.
Cur ==
    [flagAdded |-> flagAdded, observed |-> observed, gate |-> gate,
     markers |-> markers, shimmers |-> shimmers, tweets |-> tweets,
     processingUsernames |-> processingUsernames,
     locationCache |-> locationCache, saveTimeout |-> saveTimeout,
     requestQueue |-> requestQueue, isProcessingQueue |-> isProcessingQueue,
     lastRequestTime |-> lastRequestTime,
     currentRequestInterval |-> currentRequestInterval,
     activeRequests |-> activeRequests,
     rateLimitResetTime |-> rateLimitResetTime,
     pending |-> pending, bridge |-> bridge, timers |-> timers,
     window |-> window, gateLog |-> gateLog, resumed |-> resumed]

Commit(s) ==
    /\ flagAdded' = s.flagAdded
    /\ observed' = s.observed
    /\ gate' = s.gate
    /\ markers' = s.markers
    /\ shimmers' = s.shimmers
    /\ tweets' = s.tweets
    /\ processingUsernames' = s.processingUsernames
    /\ locationCache' = s.locationCache
    /\ saveTimeout' = s.saveTimeout
    /\ requestQueue' = s.requestQueue
    /\ isProcessingQueue' = s.isProcessingQueue
    /\ lastRequestTime' = s.lastRequestTime
    /\ currentRequestInterval' = s.currentRequestInterval
    /\ activeRequests' = s.activeRequests
    /\ rateLimitResetTime' = s.rateLimitResetTime
    /\ pending' = s.pending
    /\ bridge' = s.bridge
    /\ timers' = s.timers
    /\ window' = s.window
    /\ gateLog' = s.gateLog
    /\ resumed' = s.resumed

Ev(op, frag, name, loc, rl) ==
    [op |-> op, frag |-> frag, name |-> name, loc |-> loc, rl |-> rl,
     seq |-> 1 - event.seq]

\* ------------------------------------------------------------------- cache
EmptyCache == [n \in {} |-> 0]

\* Date.now()
Clock == After(day, now)

\* a > b on points in time
Later(a, b) == a.days > b.days \/ (a.days = b.days /\ a.ms > b.ms)

\* t + CACHE_EXPIRY_DAYS * 24 * 60 * 60 * 1000
Ttl(t) == After(t.days + CACHE_EXPIRY_DAYS, t.ms)

\* an object without the field, and every other falsy expiry
NoExpiry == After(0, 0)

\* locationCache.set(username, entry)
MapSet(cache, username, entry) ==
    [n \in DOMAIN cache \cup {username} |->
        IF n = username THEN entry ELSE cache[n]]

SaveCacheEntryNoDebounce(s, username, location) ==
    AddTimer([s EXCEPT !.locationCache =
                          MapSet(@, username,
                                 [location |-> location, expiry |-> Ttl(Clock),
                                  cachedAt |-> Clock]),
                       !.saveTimeout = TRUE,
                       !.window = @ \cup {username}],
             Timer("save", "", 0, SAVE_DELAY))

\* saveCacheEntry (lines 181-204)
SaveCacheEntry(s, username, location) ==
    LET entry == [location |-> location, expiry |-> Ttl(Clock), cachedAt |-> Clock]
        s1 == [s EXCEPT !.locationCache = MapSet(@, username, entry),
                        !.window = IF CountKind(s.timers, "save") > 0
                                   THEN @ \cup {username} ELSE @]
    IN  IF ~contextValid THEN s
        ELSE IF s.saveTimeout THEN s1
        ELSE AddTimer([s1 EXCEPT !.saveTimeout = TRUE, !.window = {username}],
                      Timer("save", "", 0, SAVE_DELAY))

\* the stored form of one cache entry, and the other shapes found in storage
Stored(entry) ==
    [shape |-> "object", location |-> entry.location,
     expiry |-> entry.expiry, cachedAt |-> entry.cachedAt]

LegacyString(location) ==
    [shape |-> "string", location |-> location, expiry |-> NoExpiry, cachedAt |-> NoExpiry]

NullData ==
    [shape |-> "null", location |-> NullLoc, expiry |-> NoExpiry, cachedAt |-> NoExpiry]

RECURSIVE CacheObj(_, _)
\* saveCache lines 153-168: the object written, one key per Map entry that has
\* a truthy location
CacheObj(cache, names) ==
    IF names = {} THEN << >>
    ELSE LET n == CHOOSE x \in names : TRUE
             rest == CacheObj(cache, names \ {n})
         IN  IF cache[n].location # NullLoc
             THEN <<[name |-> n, data |-> Stored(cache[n])]>> \o rest
             ELSE rest

SaveCacheKeepsOld(cache, store) == store

\* saveCache (lines 142-178): what storage holds once the write is done
SaveCache(cache, store) ==
    IF ~contextValid THEN store ELSE CacheObj(cache, DOMAIN cache)

\* line 123: data.expiry && data.expiry > now && data.location !== null
LoadEntry(data) ==
    /\ data.expiry # NoExpiry
    /\ Later(data.expiry, Clock)
    /\ data.location # NullLoc

RECURSIVE LoadEntries(_, _)
\* the for loop of loadCache (lines 113-127) over the stored entries in key
\* order; reading a property of a null entry throws and ends the loop in the
\* catch of line 130
LoadEntries(cache, entries) ==
    IF entries = << >> THEN cache
    ELSE LET e == Head(entries)
         IN  IF e.data.shape = "string"
             THEN LoadEntries(MapSet(cache, e.name,
                                     [location |-> e.data.location,
                                      expiry |-> Ttl(Clock), cachedAt |-> Clock]),
                              Tail(entries))
             ELSE IF e.data.shape = "null"
             THEN cache
             ELSE IF LoadEntry(e.data)
             THEN LoadEntries(MapSet(cache, e.name,
                                     [location |-> e.data.location,
                                      expiry |-> e.data.expiry,
                                      cachedAt |-> e.data.cachedAt]),
                              Tail(entries))
             ELSE LoadEntries(cache, Tail(entries))

\* loadCache (lines 100-139)
LoadCache(cache, store) ==
    IF ~contextValid THEN cache ELSE LoadEntries(cache, store)

\* --------------------------------------------------------------- scheduler
UsedIds(s) ==
    {r.id : r \in s.pending} \cup {r.id : r \in s.bridge}
        \cup {t.id : t \in BagToSet(s.timers)}

\* 0 when the pool is exhausted; the actions refuse such a step.
FreshId(s) ==
    LET free == (1..MaxRequests) \ UsedIds(s)
    IN  IF free = {} THEN 0 ELSE CHOOSE i \in free : \A j \in free : i <= j

\* makeLocationRequest up to its return: handler installed, request posted,
\* 10 s timeout armed.
MakeLocationRequest(s, item) ==
    LET id == FreshId(s)
    IN  AddTimer([s EXCEPT
                    !.pending = @ \cup {[id |-> id, screenName |-> item.screenName, frag |-> item.frag]},
                    !.bridge = @ \cup {[id |-> id, screenName |-> item.screenName]}],
                 Timer("timeout", "", id, REQUEST_TIMEOUT))

\* processRequestQueue lines 257-262: dequeue and start one request
StartHead(s) ==
    IF s.requestQueue = << >>
    THEN s      \* shift() of an empty queue throws; the loop dies with the flag set
    ELSE MakeLocationRequest(
            [s EXCEPT !.requestQueue = Tail(@),
                      !.activeRequests = @ + 1,
                      !.lastRequestTime = now],
            Head(s.requestQueue))

\* line 253: timeSinceLastRequest < currentRequestInterval; w is the outcome
\* of the comparison when the clock is not modelled.
NeedWait(s, w) ==
    IF timed THEN now - s.lastRequestTime < s.currentRequestInterval ELSE w

\* line 254: suspend the loop on the pacing delay
Suspend(s) ==
    AddTimer(s, Timer("pacing", "", 0,
                      s.currentRequestInterval - (now - s.lastRequestTime)))

\* the while loop of processRequestQueue from its head, up to the next await
\* or to its exit. Right after a start lastRequestTime is the current time,
\* so the next comparison of line 253 is true.
SlotFreeAlways(s) == TRUE

\* line 248: activeRequests < MAX_CONCURRENT_REQUESTS
SlotFree(s) == s.activeRequests < MAX_CONCURRENT_REQUESTS

RECURSIVE DrainLoop(_, _)
DrainLoop(s, w) ==
    IF s.requestQueue # << >> /\ SlotFree(s)
    THEN IF NeedWait(s, w)
         THEN Suspend(s)
         ELSE DrainLoop(StartHead(s), TRUE)
    ELSE [s EXCEPT !.isProcessingQueue = FALSE]

QueueGuardNoFlag(s) == s.requestQueue = << >>

\* line 228
QueueGuard(s) == s.isProcessingQueue \/ s.requestQueue = << >>

ProcessRequestQueueNoRecheck(s, w, e) ==
    IF QueueGuard(s) THEN s
    ELSE IF s.rateLimitResetTime > 0
            /\ (IF timed THEN now \div 1000 < s.rateLimitResetTime ELSE e)
    THEN s
    ELSE DrainLoop([s EXCEPT !.rateLimitResetTime = 0,
                             !.isProcessingQueue = TRUE], w)

\* processRequestQueue up to its first await or its return. e is the outcome
\* of "now < rateLimitResetTime" when the clock is not modelled.
ProcessRequestQueue(s, w, e) ==
    IF QueueGuard(s) THEN s
    ELSE IF s.rateLimitResetTime > 0
            /\ (IF timed THEN now \div 1000 < s.rateLimitResetTime ELSE e)
    THEN AddTimer(s, Timer("ratecheck", "", 0,
                           Min((s.rateLimitResetTime - now \div 1000) * 1000,
                               RATE_CHECK_MAX)))
    ELSE DrainLoop([s EXCEPT !.rateLimitResetTime = 0,
                             !.isProcessingQueue = TRUE], w)

\* the loop resumed after the pacing delay (line 257 on)
ResumeLoop(s) ==
    IF s.requestQueue = << >> THEN s
    ELSE DrainLoop(StartHead(s), TRUE)

SettleKeepSlot(s) == AddTimer(s, Timer("continue", "", 0, CONTINUE_DELAY))

\* the .finally of line 269
Settle(s) ==
    AddTimer([s EXCEPT !.activeRequests = @ - 1],
             Timer("continue", "", 0, CONTINUE_DELAY))

\* --------------------------------------------------------- annotation engine
\* the characters of the location strings and of the block-list entries
Chars(str) ==
    CASE str = "Japan" -> <<"J", "a", "p", "a", "n">>
      [] str = "Russia" -> <<"R", "u", "s", "s", "i", "a">>
      [] str = "japan" -> <<"j", "a", "p", "a", "n">>
      [] str = "USS" -> <<"U", "S", "S">>
      [] str = "Jar" -> <<"J", "a", "r">>

\* String.prototype.toLowerCase
ToLowerCase(chars) ==
    [i \in DOMAIN chars |->
        CASE chars[i] = "J" -> "j"
          [] chars[i] = "R" -> "r"
          [] chars[i] = "U" -> "u"
          [] chars[i] = "S" -> "s"
          [] OTHER -> chars[i]]

\* String.prototype.includes
Includes(chars, part) ==
    \E i \in 0..(Len(chars) - Len(part)) :
        SubSeq(chars, i + 1, i + Len(part)) = part

\* lines 676-679
IsBlocked(location, list) ==
    \E country \in list :
        Includes(ToLowerCase(Chars(location)), ToLowerCase(Chars(country)))

\* the children a tweet article has when the page renders it
OriginalChildren == {"c1", "c2"}

\* a tweet article as the page renders it
NewTweet ==
    [blocked |-> FALSE, banner |-> "absent", children |-> "",
     nodes |-> OriginalChildren, hideBtns |-> 0]

\* every element is, or lies in, a tweet article of its own
OwnArticle == [f \in Fragments |-> f]

RECURSIVE SumOver(_, _)
SumOver(m, S) ==
    IF S = {} THEN 0
    ELSE LET g == CHOOSE x \in S : TRUE IN m[g] + SumOver(m, S \ {g})

\* usernameElement.querySelectorAll('[data-twitter-flag]').length: the spans
\* inserted for the element and for the other containers of its tweet
FlagsIn(m, f) ==
    IF article[f] = "" THEN m[f]
    ELSE SumOver(m, {g \in attached \cup {f} : article[g] = article[f]})

ExistingFlagNever(s, f) == FALSE

\* lines 837-838
ExistingFlag(s, f) == FlagsIn(s.markers, f) > 0

BlockByClearing(s, a) ==
    [s EXCEPT !.tweets[a] = [@ EXCEPT !.blocked = TRUE, !.banner = "flex",
                                      !.nodes = {}]]

\* lines 692-725: the children of the tweet are hidden and the banner with
\* the Show button is appended
Block(s, a) ==
    [s EXCEPT !.tweets[a] = [@ EXCEPT !.blocked = TRUE, !.banner = "flex",
                                      !.children = "none"]]

GetCountryFlag(location) == location \in FlagLocations

AlreadyProcessingNever(s, screenName) == FALSE

\* line 608
AlreadyProcessing(s, screenName) == screenName \in s.processingUsernames

RECURSIVE AddFlagToUsername(_, _, _, _, _)
RECURSIVE Resume(_, _, _, _)
RECURSIVE Retrigger(_, _, _)

GetUserLocationNoCache(s, f, screenName, w, e) ==
    ProcessRequestQueue(
        [s EXCEPT !.requestQueue = Append(@, [screenName |-> screenName, frag |-> f])],
        w, e)

GetUserLocationServesNull(s, f, screenName, w, e) ==
    IF screenName \in DOMAIN s.locationCache
    THEN Resume(s, f, screenName, s.locationCache[screenName].location)
    ELSE ProcessRequestQueue(
            [s EXCEPT !.requestQueue = Append(@, [screenName |-> screenName, frag |-> f])],
            w, e)

\* getUserLocation: a cache hit resolves at once (the caller's continuation is
\* a microtask of the same task); a miss queues the request.
GetUserLocation(s, f, screenName, w, e) ==
    IF screenName \in DOMAIN s.locationCache
       /\ s.locationCache[screenName].location # NullLoc
    THEN Resume(s, f, screenName, s.locationCache[screenName].location)
    ELSE LET c == [n \in DOMAIN s.locationCache \ {screenName} |-> s.locationCache[n]]
         IN  ProcessRequestQueue(
                [s EXCEPT !.locationCache = c,
                          !.requestQueue = Append(@, [screenName |-> screenName, frag |-> f])],
                w, e)

\* addFlagToUsername up to its first await (lines 601-661)
AddFlagToUsername(s, f, screenName, w, e) ==
    IF s.flagAdded[f] = "true" THEN s
    ELSE IF AlreadyProcessing(s, screenName)
    THEN AddTimer(s, Timer("wait", f, 0, WAIT_DELAY))
    ELSE GetUserLocation(
            [s EXCEPT !.flagAdded[f] = "processing",
                      !.processingUsernames = @ \cup {screenName},
                      !.shimmers = @ \cup {f}],
            f, screenName, w, e)

\* lines 966-974: every container in the document marked waiting whose
\* identity is screenName is handed to addFlagToUsername again
Retrigger(s, todo, screenName) ==
    IF todo = {} THEN s
    ELSE LET g == CHOOSE x \in todo : TRUE
         IN  Retrigger(AddFlagToUsername([s EXCEPT !.resumed = @ \cup {g}],
                                         g, screenName, TRUE, TRUE),
                       todo \ {g}, screenName)

WaitingContainers(s, screenName) ==
    {g \in attached : s.flagAdded[g] = "waiting" /\ ident[g] = screenName}

\* addFlagToUsername after "await getUserLocation" (lines 661-995)
Resume(s, f, screenName, location) ==
    LET body ==
          IF location = NullLoc
          THEN [s EXCEPT !.flagAdded[f] = "failed"]
          ELSE IF IsBlocked(location, blockedCountries) /\ article[f] # ""
          THEN IF s.tweets[article[f]].blocked
               THEN [s EXCEPT !.flagAdded[f] = "blocked"]
               ELSE Block([s EXCEPT !.flagAdded[f] = "blocked"], article[f])
          ELSE IF ~GetCountryFlag(location)
          THEN [s EXCEPT !.flagAdded[f] = "failed"]
          ELSE IF ExistingFlag(s, f)
          THEN [s EXCEPT !.flagAdded[f] = "true"]
          ELSE LET s1 == [s EXCEPT !.markers[f] = @ + 1,
                                   !.flagAdded[f] = "true"]
               IN  Retrigger(s1, WaitingContainers(s1, screenName), screenName)
    IN  [body EXCEPT !.processingUsernames = @ \ {screenName},
                     !.shimmers = @ \ {f}]

\* removeAllFlags (lines 999-1014): the markers and the shimmers in the
\* document are removed and the flagAdded attribute of its containers deleted
RemoveAllFlags(s) ==
    [s EXCEPT !.markers = [f \in Fragments |-> IF f \in attached THEN 0 ELSE @[f]],
              !.shimmers = @ \ attached,
              !.flagAdded = [f \in Fragments |->
                               IF f \in attached THEN "none" ELSE @[f]]]


\* ------------------------------------------------------ response handling
RecoverNoFloor(interval) == interval - RECOVERY_STEP

RecoverStuck(interval) == interval

\* line 303, applied when the interval is above the floor (line 302)
Recover(interval) ==
    IF interval > INITIAL_REQUEST_INTERVAL
    THEN Max(INITIAL_REQUEST_INTERVAL, interval - RECOVERY_STEP)
    ELSE interval

BackoffUncapped(interval) == interval * 2

\* line 309
Backoff(interval) == Min(MAX_REQUEST_INTERVAL, interval * 2)

ShouldCacheAlways(isRateLimited) == TRUE

\* line 298
ShouldCache(isRateLimited) == ~isRateLimited

\* the message handler of makeLocationRequest, lines 294-311
HandleResponse(s, screenName, location, isRateLimited) ==
    LET s1 == IF ShouldCache(isRateLimited)
              THEN SaveCacheEntry(s, screenName, location)
              ELSE s
    IN  [s1 EXCEPT !.currentRequestInterval =
                      IF isRateLimited THEN Backoff(@) ELSE Recover(@)]

TimeoutOf(tm, id) == CHOOSE t \in BagToSet(tm) : t.kind = "timeout" /\ t.id = id

MatchingByName(r) == {p \in pending : p.screenName = r.screenName}

\* lines 289-292: the installed handlers that accept the message
Matching(r) == {p \in pending : p.id = r.id /\ p.screenName = r.screenName}

FixedHost ==
    UNCHANGED <<timed, now, day, contextValid, extensionEnabled,
                attached, ident, article, blockedCountries>>

Fixed == FixedHost /\ UNCHANGED storage

Due(t) == t \in BagToSet(timers) /\ (timed => now >= t.due)

Fired(t) == [Cur EXCEPT !.timers = @ (-) SetToBag({t})]

\* no step starts a request without an id to give it
IdsOk(s) == \A p \in s.pending : p.id # 0

\* ------------------------------------------------------------------ actions
NewContainersAll == attached

ObserveUnmarked(s, new) ==
    [s EXCEPT !.gate = @ \cup new,
              !.gateLog = [f \in Fragments |->
                              IF f \in new THEN [@[f] EXCEPT !.registered = @ + 1]
                              ELSE @[f]]]

ObserveEager(s, new) ==
    LET o == [s EXCEPT !.observed = [f \in Fragments |-> @[f] \/ f \in new],
                       !.gate = @ \cup new,
                       !.gateLog = [f \in Fragments |->
                                       IF f \in new
                                       THEN [@[f] EXCEPT !.registered = @ + 1]
                                       ELSE @[f]]]
    IN  IF new = {} THEN o
        ELSE LET f == CHOOSE x \in new : TRUE
             IN  [o EXCEPT !.requestQueue =
                              Append(@, [screenName |-> ident[f], frag |-> f])]

\* lines 1053-1057: the containers are marked observed and registered with
\* the visibility observer
Observe(s, new) ==
    [s EXCEPT !.observed = [f \in Fragments |-> @[f] \/ f \in new],
              !.gate = @ \cup new,
              !.gateLog = [f \in Fragments |->
                              IF f \in new THEN [@[f] EXCEPT !.registered = @ + 1]
                              ELSE @[f]]]

\* lines 1032-1043: what a scan pass does not skip
NewContainers ==
    {f \in attached : flagAdded[f] \in {"none", "failed"} /\ ~observed[f]}

\* processUsernames (lines 1017-1066)
ProcessUsernames ==
    LET new == NewContainers
    IN  /\ extensionEnabled
        /\ new # {}
        /\ Commit(Observe(Cur, new))
        /\ event' = Ev("scan", "", "", NullLoc, FALSE)
        /\ Fixed

\* processUsernames when it skips every container it finds
Rescan ==
    /\ extensionEnabled
    /\ NewContainers = {}
    /\ Commit(Cur)
    /\ event' = Ev("scan", "", "", NullLoc, FALSE)
    /\ Fixed

\* the IntersectionObserver callback for one entry (lines 22-39)
Intersect(f) ==
    /\ f \in gate
    /\ f \in attached
    /\ \E w, e \in BOOLEAN :
          LET s == AddFlagToUsername([Cur EXCEPT !.gate = @ \ {f},
                                                 !.gateLog[f].handed = @ + 1],
                                     f, ident[f], w, e)
          IN  IdsOk(s) /\ Commit(s)
    /\ event' = Ev("intersect", f, ident[f], NullLoc, FALSE)
    /\ Fixed

ScanResetsStatus(s) ==
    LET new == IF extensionEnabled THEN attached ELSE {}
    IN  [s EXCEPT !.flagAdded = [f \in Fragments |-> IF f \in new THEN "none" ELSE @[f]],
                  !.observed = [f \in Fragments |-> @[f] \/ f \in new],
                  !.gate = @ \cup new]

\* processUsernames (lines 1017-1066) called from a handler
Scan(s) ==
    LET new == IF extensionEnabled
               THEN {f \in attached : /\ s.flagAdded[f] \in {"none", "failed"}
                                      /\ ~s.observed[f]}
               ELSE {}
    IN  Observe(s, new)

\* the storage.onChanged listener for the block list (lines 89-97)
BlocklistChanged(list) ==
    /\ contextValid
    /\ list # blockedCountries
    /\ blockedCountries' = list
    /\ Commit(Scan(Cur))
    /\ event' = Ev("blocklist", "", "", NullLoc, FALSE)
    /\ UNCHANGED <<timed, now, day, contextValid, extensionEnabled, storage,
                   attached, ident, article>>

\* addHideButton (lines 515-555): one Hide button unless the tweet has one
AddHideButton(s, a) ==
    IF s.tweets[a].hideBtns > 0 THEN s
    ELSE [s EXCEPT !.tweets[a].hideBtns = @ + 1]

RevealKeepsBanner(s, a) ==
    AddHideButton([s EXCEPT !.tweets[a].children = ""], a)

\* showButton.onclick (lines 712-718)
Reveal(s, a) ==
    AddHideButton([s EXCEPT !.tweets[a].banner = "none",
                            !.tweets[a].children = ""], a)

\* hideButton.onclick (lines 535-540)
Rehide(s, a) ==
    [s EXCEPT !.tweets[a].banner = "flex",
              !.tweets[a].children = "none",
              !.tweets[a].hideBtns = @ - 1]

\* the tweet articles in the document
Articles == {article[f] : f \in attached} \ {""}

\* the user clicks the Show button of a displayed banner
ShowClick(a) ==
    /\ a \in Articles
    /\ tweets[a].banner = "flex"
    /\ Commit(Reveal(Cur, a))
    /\ event' = Ev("show", a, "", NullLoc, FALSE)
    /\ Fixed

\* the user clicks the Hide button of a revealed tweet
HideClick(a) ==
    /\ a \in Articles
    /\ tweets[a].hideBtns > 0
    /\ tweets[a].children = ""
    /\ Commit(Rehide(Cur, a))
    /\ event' = Ev("hide", a, "", NullLoc, FALSE)
    /\ Fixed

\* the extensionToggle message (lines 68-80); a page whose extension context
\* is gone receives no messages
ExtensionToggle(enabled) ==
    /\ contextValid
    /\ enabled => CountKind(timers, "rescan") < MaxTimers
    /\ extensionEnabled' = enabled
    /\ Commit(IF enabled
              THEN AddTimer(Cur, Timer("rescan", "", 0, RESCAN_DELAY))
              ELSE RemoveAllFlags(Cur))
    /\ event' = Ev("toggle", "", "", NullLoc, FALSE)
    /\ UNCHANGED <<timed, now, day, contextValid, storage, attached, ident,
                   article, blockedCountries>>

\* the timer of lines 74-76: processUsernames, which returns at once when the
\* extension has been disabled in the meantime (line 1019)
RescanFire(t) ==
    /\ Due(t)
    /\ t.kind = "rescan"
    /\ LET s == Fired(t)
           new == IF extensionEnabled THEN NewContainers ELSE {}
       IN  Commit(Observe(s, new))
    /\ event' = Ev("rescan", "", "", NullLoc, FALSE)
    /\ Fixed

\* the MutationObserver callback (lines 1075-1092) for one batch of
\* mutations, with or without added nodes
MutationBatch(added) ==
    /\ (extensionEnabled /\ added) => CountKind(timers, "mutation") < MaxPendingScans
    /\ Commit(IF extensionEnabled /\ added
              THEN AddTimer(Cur, Timer("mutation", "", 0, MUTATION_DELAY))
              ELSE Cur)
    /\ event' = Ev("mutation", "", "", NullLoc, FALSE)
    /\ Fixed

\* the timer of line 1091: processUsernames
MutationScanFire(t) ==
    /\ Due(t)
    /\ t.kind = "mutation"
    /\ Commit(Scan(Fired(t)))
    /\ event' = Ev("mscan", "", "", NullLoc, FALSE)
    /\ Fixed

\* the 500 ms timer of line 610 and lines 611-616
WaitFire(t) ==
    /\ Due(t)
    /\ t.kind = "wait"
    /\ LET s == Fired(t)
       IN  Commit(IF s.flagAdded[t.frag] = "true" THEN s
                  ELSE [s EXCEPT !.flagAdded[t.frag] = "waiting"])
    /\ event' = Ev("wait", t.frag, ident[t.frag], NullLoc, FALSE)
    /\ Fixed

\* a __locationResponse message (lines 285-315) and what it resolves
Response(r, location, isRateLimited) ==
    /\ r \in bridge
    /\ Matching(r) # {}
    /\ LET p == CHOOSE x \in Matching(r) : TRUE
           \* the 10 s timer stays armed in the code, but once the promise is
           \* settled its callback changes nothing, so it is retired here
           s0 == [Cur EXCEPT !.pending = @ \ {p}, !.bridge = @ \ {r},
                             !.timers = @ (-) SetToBag({TimeoutOf(@, p.id)})]
           s1 == HandleResponse(s0, p.screenName, location, isRateLimited)
           s2 == Resume(Settle(s1), p.frag, p.screenName, location)
       IN  /\ Commit(s2)
           /\ event' = Ev("response", p.frag, p.screenName, location, isRateLimited)
    /\ Fixed

\* a __locationResponse message no installed handler matches
LateResponse(r) ==
    /\ r \in bridge
    /\ Matching(r) = {}
    /\ Commit([Cur EXCEPT !.bridge = @ \ {r}])
    /\ event' = Ev("late", "", r.screenName, NullLoc, FALSE)
    /\ Fixed

\* the 10 s timer of lines 326-331, for a request still unsettled
TimeoutFire(t) ==
    /\ Due(t)
    /\ t.kind = "timeout"
    /\ LET p == CHOOSE x \in pending : x.id = t.id
           s1 == [Fired(t) EXCEPT !.pending = @ \ {p}]
       IN  /\ Commit(Resume(Settle(s1), p.frag, p.screenName, NullLoc))
           /\ event' = Ev("timeout", p.frag, p.screenName, NullLoc, FALSE)
    /\ Fixed

\* setTimeout(processRequestQueue, 200) of line 272
ContinueFire(t) ==
    /\ Due(t)
    /\ t.kind = "continue"
    /\ \E w, e \in BOOLEAN :
          LET s == ProcessRequestQueue(Fired(t), w, e)
          IN  IdsOk(s) /\ Commit(s)
    /\ event' = Ev("continue", "", "", NullLoc, FALSE)
    /\ Fixed

\* setTimeout(processRequestQueue, ...) of line 238
RateCheckFire(t) ==
    /\ Due(t)
    /\ t.kind = "ratecheck"
    /\ \E w, e \in BOOLEAN :
          LET s == ProcessRequestQueue(Fired(t), w, e)
          IN  IdsOk(s) /\ Commit(s)
    /\ event' = Ev("ratecheck", "", "", NullLoc, FALSE)
    /\ Fixed

\* the pacing delay of line 254 ends
PacingWake(t) ==
    /\ Due(t)
    /\ t.kind = "pacing"
    /\ LET s == ResumeLoop(Fired(t))
       IN  IdsOk(s) /\ Commit(s)
    /\ event' = Ev("wake", "", "", NullLoc, FALSE)
    /\ Fixed

\* the debounce timer of saveCacheEntry fires (lines 199-200): saveCache runs
\* up to its await of chrome.storage.local.set; with an invalid context it
\* returns at once and line 201 follows in the same task
SaveFire(t) ==
    /\ Due(t)
    /\ t.kind = "save"
    /\ storage' = SaveCache(locationCache, storage)
    /\ LET s == Fired(t)
       IN  Commit(IF contextValid
                  THEN AddTimer(s, Timer("written", "", 0, 0))
                  ELSE [s EXCEPT !.saveTimeout = FALSE, !.window = {}])
    /\ event' = Ev("save", "", "", NullLoc, FALSE)
    /\ FixedHost

\* the write of the debounced flush is done (line 201)
SaveDone(t) ==
    /\ Due(t)
    /\ t.kind = "written"
    /\ Commit([Fired(t) EXCEPT !.saveTimeout = FALSE, !.window = {}])
    /\ event' = Ev("written", "", "", NullLoc, FALSE)
    /\ Fixed

\* setInterval(saveCache, 30000) of line 1139
PeriodicSave ==
    /\ contextValid
    /\ storage' = SaveCache(locationCache, storage)
    /\ storage' # storage
    /\ Commit(Cur)
    /\ event' = Ev("periodic", "", "", NullLoc, FALSE)
    /\ FixedHost

\* the clearCache message (lines 81-85); a page whose extension context is
\* gone receives no messages
ClearCache ==
    /\ contextValid
    /\ storage' = SaveCache(EmptyCache, storage)
    /\ Commit([Cur EXCEPT !.locationCache = EmptyCache])
    /\ event' = Ev("clear", "", "", NullLoc, FALSE)
    /\ FixedHost

\* the extension is reloaded or removed: the context of this page is gone
ContextInvalidated ==
    /\ contextValid
    /\ contextValid' = FALSE
    /\ Commit(Cur)
    /\ event' = Ev("invalidate", "", "", NullLoc, FALSE)
    /\ UNCHANGED <<timed, now, day, extensionEnabled, storage, attached, ident,
                   article, blockedCountries>>

ResetTimes == IF timed THEN {now \div 1000 + 1} ELSE {1}

\* a __rateLimitInfo message (lines 216-223)
RateLimitInfo(resetTime) ==
    /\ rateLimitResetTime # resetTime
    /\ Commit([Cur EXCEPT !.rateLimitResetTime = resetTime])
    /\ event' = Ev("ratelimit", "", "", NullLoc, FALSE)
    /\ Fixed

TimerSet == BagToSet(timers)

\* no queue item, installed handler or timer refers to the element object
Unreferenced(f) ==
    /\ \A i \in 1..Len(requestQueue) : requestQueue[i].frag # f
    /\ \A p \in pending : p.frag # f
    /\ \A t \in TimerSet : t.frag # f

\* the page removes a fragment from the document
Detach(f) ==
    /\ f \in attached
    /\ attached' = attached \ {f}
    /\ gate' = gate \ {f}
    /\ event' = Ev("detach", f, ident[f], NullLoc, FALSE)
    /\ UNCHANGED <<timed, now, day, contextValid, extensionEnabled, storage,
                   shimmers, ident, article, tweets, flagAdded, observed, markers,
                   blockedCountries, processingUsernames, locationCache,
                   saveTimeout, requestQueue, isProcessingQueue, lastRequestTime,
                   currentRequestInterval, activeRequests, rateLimitResetTime,
                   pending, bridge, timers, window, gateLog, resumed>>

\* the page inserts a new fragment; a free element object stands for it
Attach(f, screenName) ==
    /\ f \notin attached
    /\ Unreferenced(f)
    /\ BagCardinality(timers) < MaxTimers
    /\ attached' = attached \cup {f}
    /\ ident' = [ident EXCEPT ![f] = screenName]
    /\ flagAdded' = [flagAdded EXCEPT ![f] = "none"]
    /\ observed' = [observed EXCEPT ![f] = FALSE]
    /\ markers' = [markers EXCEPT ![f] = 0]
    /\ tweets' = IF article[f] = f THEN [tweets EXCEPT ![f] = NewTweet] ELSE tweets
    /\ event' = Ev("attach", f, screenName, NullLoc, FALSE)
    /\ UNCHANGED <<timed, now, day, contextValid, extensionEnabled, storage,
                   shimmers, article, gate, blockedCountries, processingUsernames,
                   locationCache, saveTimeout, requestQueue, isProcessingQueue,
                   lastRequestTime, currentRequestInterval, activeRequests,
                   rateLimitResetTime, pending, bridge, timers, window>>
    /\ gateLog' = [gateLog EXCEPT ![f] = [registered |-> 0, handed |-> 0]]
    /\ resumed' = resumed \ {f}

\* what the page script may answer
Answers == Locations \cup {NullLoc}

\* time passes until the next pending timer is due
Advance ==
    /\ timed
    /\ \A t \in TimerSet : t.due > now
    /\ \E t \in TimerSet :
          /\ \A u \in TimerSet : t.due <= u.due
          /\ t.due <= StartTime + MaxElapsed
          /\ now' = t.due
    /\ event' = Ev("advance", "", "", NullLoc, FALSE)
    /\ UNCHANGED <<timed, day, contextValid, extensionEnabled, storage,
                   shimmers, attached, ident, article, tweets, flagAdded, observed, gate, markers,
                   blockedCountries, processingUsernames, locationCache,
                   saveTimeout, requestQueue, isProcessingQueue, lastRequestTime,
                   currentRequestInterval, activeRequests, rateLimitResetTime,
                   pending, bridge, timers, window, gateLog, resumed>>

Next ==
    \/ ProcessUsernames
    \/ \E f \in Fragments : Intersect(f)
    \/ \E t \in TimerSet : WaitFire(t)
    \/ \E r \in bridge, l \in Answers, rl \in BOOLEAN : Response(r, l, rl)
    \/ \E r \in bridge : LateResponse(r)
    \/ \E t \in TimerSet : TimeoutFire(t)
    \/ \E t \in TimerSet : ContinueFire(t)
    \/ \E t \in TimerSet : PacingWake(t)
    \/ \E t \in TimerSet : SaveFire(t)
    \/ \E t \in TimerSet : SaveDone(t)

\* ------------------------------------------------------------ initial state
NoEvent == [op |-> "init", frag |-> "", name |-> "", loc |-> NullLoc, rl |-> FALSE, seq |-> 0]

InitScheduler ==
    /\ requestQueue = << >>
    /\ isProcessingQueue = FALSE
    /\ lastRequestTime = 0
    /\ currentRequestInterval = INITIAL_REQUEST_INTERVAL
    /\ activeRequests = 0
    /\ rateLimitResetTime = 0
    /\ pending = {}
    /\ bridge = {}
    /\ timers = EmptyBag
    /\ window = {}
    /\ gateLog = [f \in Fragments |-> [registered |-> 0, handed |-> 0]]
    /\ resumed = {}
    /\ saveTimeout = FALSE
    /\ processingUsernames = {}
    /\ event = NoEvent

\* the host at start-up: context valid, extension enabled, nothing stored
InitHost ==
    /\ day = 0
    /\ contextValid = TRUE
    /\ extensionEnabled = TRUE
    /\ storage = << >>

InitLayout(art) ==
    /\ article = art
    /\ tweets = [a \in Fragments |-> NewTweet]

InitElements(doc) ==
    /\ attached = DOMAIN doc
    /\ ident = [f \in Fragments |-> IF f \in DOMAIN doc THEN doc[f] ELSE ""]
    /\ flagAdded = [f \in Fragments |-> "none"]
    /\ observed = [f \in Fragments |-> FALSE]
    /\ gate = {}
    /\ markers = [f \in Fragments |-> 0]
    /\ shimmers = {}

InitDocument(doc) ==
    /\ InitLayout(OwnArticle)
    /\ InitElements(doc)

\* two fragments of one identity and one of another
Page == [f \in Fragments |-> IF f = "f3" THEN "bob" ELSE "carol"]

Init ==
    /\ timed = FALSE
    /\ now = 0
    /\ InitDocument(Page)
    /\ blockedCountries = {"Russia"}
    /\ locationCache = EmptyCache
    /\ InitHost
    /\ InitScheduler

Spec == Init /\ [][Next]_vars


\* ---------------------------------------------- the scheduler under load
\* three fragments of three identities: more lookups than concurrency slots
Crowd == [f \in Fragments |-> IF f = "f1" THEN "carol" ELSE IF f = "f2" THEN "bob" ELSE "dave"]

SchedInit ==
    /\ timed = FALSE
    /\ now = 0
    /\ InitDocument(Crowd)
    /\ blockedCountries = {"Russia"}
    /\ locationCache = EmptyCache
    /\ InitHost
    /\ InitScheduler

SchedNext ==
    \/ ProcessUsernames
    \/ \E f \in Fragments : Intersect(f)
    \/ \E r \in bridge, rl \in BOOLEAN : Response(r, "Japan", rl)
    \/ \E r \in bridge : LateResponse(r)
    \/ \E t \in TimerSet : TimeoutFire(t)
    \/ \E t \in TimerSet : ContinueFire(t)
    \/ \E t \in TimerSet : PacingWake(t)
    \/ \E t \in TimerSet : SaveFire(t)
    \/ \E t \in TimerSet : SaveDone(t)
    \/ \E t \in TimerSet : RateCheckFire(t)
    \/ \E T \in ResetTimes : RateLimitInfo(T)

SchedSpec == SchedInit /\ [][SchedNext]_vars

\* ------------------------------------------------- the scheduler in time
Pair == [f \in {"f1", "f2"} |-> IF f = "f1" THEN "carol" ELSE "bob"]

TimedInit ==
    /\ timed = TRUE
    /\ now = StartTime
    /\ InitDocument(Pair)
    /\ blockedCountries = {"Russia"}
    /\ locationCache = EmptyCache
    /\ InitHost
    /\ InitScheduler

TimedNext ==
    \/ ProcessUsernames
    \/ \E f \in Fragments : Intersect(f)
    \/ \E r \in bridge, rl \in BOOLEAN : Response(r, "Japan", rl)
    \/ \E r \in bridge : LateResponse(r)
    \/ \E t \in TimerSet : TimeoutFire(t)
    \/ \E t \in TimerSet : ContinueFire(t)
    \/ \E t \in TimerSet : PacingWake(t)
    \/ \E t \in TimerSet : SaveFire(t)
    \/ \E t \in TimerSet : SaveDone(t)
    \/ \E t \in TimerSet : RateCheckFire(t)
    \/ \E T \in ResetTimes : RateLimitInfo(T)
    \/ Advance

TimedSpec == TimedInit /\ [][TimedNext]_vars


\* ------------------------------------------ an endless stream of lookups
\* one fragment at a time scrolls through the page; the service never has a
\* location, so every new fragment means a new lookup
Single == [f \in {"f1"} |-> "carol"]

BackoffInit ==
    /\ timed = FALSE
    /\ now = 0
    /\ InitDocument(Single)
    /\ blockedCountries = {"Russia"}
    /\ locationCache = EmptyCache
    /\ InitHost
    /\ InitScheduler

BackoffNext ==
    \/ ProcessUsernames
    \/ \E f \in Fragments : Intersect(f)
    \/ \E r \in bridge, rl \in BOOLEAN : Response(r, NullLoc, rl)
    \/ \E r \in bridge : LateResponse(r)
    \/ \E t \in TimerSet : TimeoutFire(t)
    \/ \E t \in TimerSet : ContinueFire(t)
    \/ \E t \in TimerSet : PacingWake(t)
    \/ \E t \in TimerSet : SaveFire(t)
    \/ \E t \in TimerSet : SaveDone(t)
    \/ Detach("f1")
    \/ Attach("f1", "carol")

BackoffSpec == BackoffInit /\ [][BackoffNext]_vars


\* ------------------------------------------------- scan passes that repeat
\* the page keeps triggering scan passes (mutations, navigation), also when
\* no container is new
RetryInit ==
    /\ timed = FALSE
    /\ now = 0
    /\ InitDocument(Pair)
    /\ blockedCountries = {"Russia"}
    /\ locationCache = EmptyCache
    /\ InitHost
    /\ InitScheduler

RetryNext ==
    \/ ProcessUsernames
    \/ \E f \in Fragments : Intersect(f)
    \/ \E r \in bridge, l \in Answers, rl \in BOOLEAN : Response(r, l, rl)
    \/ \E r \in bridge : LateResponse(r)
    \/ \E t \in TimerSet : TimeoutFire(t)
    \/ \E t \in TimerSet : ContinueFire(t)
    \/ \E t \in TimerSet : PacingWake(t)
    \/ \E t \in TimerSet : SaveFire(t)
    \/ \E t \in TimerSet : SaveDone(t)
    \/ Rescan

RetrySpec == RetryInit /\ [][RetryNext]_vars

\* --------------------------------------------------- the cache over time
\* entries the durable store can hold at start-up
ValidEntry(location) ==
    [shape |-> "object", location |-> location,
     expiry |-> After(StartDay + 10, 0), cachedAt |-> After(StartDay - 20, 0)]

ExpiredEntry(location) ==
    [shape |-> "object", location |-> location,
     expiry |-> After(StartDay, 0), cachedAt |-> After(StartDay - 30, 0)]

DurableStores ==
    { << >>,
      <<[name |-> "carol", data |-> ValidEntry("Japan")]>>,
      <<[name |-> "carol", data |-> ExpiredEntry("Japan")],
        [name |-> "bob", data |-> ValidEntry("Russia")]>> }

\* an object that lacks the expiry property
NoExpiryEntry(location) ==
    [shape |-> "object", location |-> location,
     expiry |-> NoExpiry, cachedAt |-> After(StartDay - 20, 0)]

\* a session that lasts a month or more
LongSleep ==
    /\ day + CACHE_EXPIRY_DAYS <= StartDay + MaxDays
    /\ day' = day + CACHE_EXPIRY_DAYS
    /\ Commit(Cur)
    /\ event' = Ev("sleep", "", "", NullLoc, FALSE)
    /\ UNCHANGED <<timed, now, contextValid, extensionEnabled, storage,
                   attached, ident, article, blockedCountries>>

\* init() has run loadCache (line 1108) before anything else
CacheInit ==
    /\ timed = FALSE
    /\ now = 0
    /\ InitDocument(Pair)
    /\ blockedCountries = {"Russia"}
    /\ day = StartDay
    /\ contextValid = TRUE
    /\ extensionEnabled = TRUE
    /\ storage \in DurableStores
    /\ locationCache = LoadCache(EmptyCache, storage)
    /\ InitScheduler

CacheNext ==
    \/ ProcessUsernames
    \/ \E f \in Fragments : Intersect(f)
    \/ \E r \in bridge, l \in Answers, rl \in BOOLEAN : Response(r, l, rl)
    \/ \E r \in bridge : LateResponse(r)
    \/ \E t \in TimerSet : TimeoutFire(t)
    \/ \E t \in TimerSet : ContinueFire(t)
    \/ \E t \in TimerSet : PacingWake(t)
    \/ \E t \in TimerSet : SaveFire(t)
    \/ \E t \in TimerSet : SaveDone(t)
    \/ PeriodicSave
    \/ ClearCache
    \/ ContextInvalidated
    \/ LongSleep

CacheSpec == CacheInit /\ [][CacheNext]_vars

\* ------------------------------------- cache hits under rate limiting
HitNext ==
    \/ ProcessUsernames
    \/ \E f \in Fragments : Intersect(f)
    \/ \E r \in bridge, l \in Answers, rl \in BOOLEAN : Response(r, l, rl)
    \/ \E r \in bridge : LateResponse(r)
    \/ \E t \in TimerSet : TimeoutFire(t)
    \/ \E t \in TimerSet : ContinueFire(t)
    \/ \E t \in TimerSet : PacingWake(t)
    \/ \E t \in TimerSet : SaveFire(t)
    \/ \E t \in TimerSet : SaveDone(t)
    \/ \E t \in TimerSet : RateCheckFire(t)
    \/ \E T \in ResetTimes : RateLimitInfo(T)

\* carol's location is in the loaded cache, bob's is not
HitInit ==
    /\ timed = FALSE
    /\ now = 0
    /\ InitDocument(Page)
    /\ blockedCountries = {"Russia"}
    /\ day = StartDay
    /\ contextValid = TRUE
    /\ extensionEnabled = TRUE
    /\ storage = <<[name |-> "carol", data |-> ValidEntry("Japan")]>>
    /\ locationCache = LoadCache(EmptyCache, storage)
    /\ InitScheduler

HitSpec == HitInit /\ [][HitNext]_vars

\* ---------------------------------------------- disabling and enabling
ToggleInit ==
    /\ timed = FALSE
    /\ now = 0
    /\ InitDocument(Pair)
    /\ blockedCountries = {"Russia"}
    /\ locationCache = EmptyCache
    /\ InitHost
    /\ InitScheduler

ToggleNext ==
    \/ ProcessUsernames
    \/ \E f \in Fragments : Intersect(f)
    \/ \E r \in bridge, l \in Answers : Response(r, l, FALSE)
    \/ \E r \in bridge : LateResponse(r)
    \/ \E t \in TimerSet : TimeoutFire(t)
    \/ \E t \in TimerSet : ContinueFire(t)
    \/ \E t \in TimerSet : PacingWake(t)
    \/ \E t \in TimerSet : SaveFire(t)
    \/ \E t \in TimerSet : SaveDone(t)
    \/ \E enabled \in BOOLEAN : ExtensionToggle(enabled)
    \/ \E t \in TimerSet : RescanFire(t)

ToggleSpec == ToggleInit /\ [][ToggleNext]_vars

\* ------------------------------------------------------------ blocking
\* a tweet article of carol that is a container itself (f1) and holds the
\* container f2 around its User-Name, and a UserCell of bob outside any
\* tweet (f3)
Timeline == [f \in Fragments |-> IF f = "f3" THEN "" ELSE "f1"]

\* the block lists the user sets
BlockLists == { {}, {"japan"}, {"USS", "Jar"} }

BlockInit ==
    /\ timed = FALSE
    /\ now = 0
    /\ InitLayout(Timeline)
    /\ InitElements(Page)
    /\ blockedCountries = {}
    /\ locationCache = EmptyCache
    /\ InitHost
    /\ InitScheduler

BlockNext ==
    \/ ProcessUsernames
    \/ Rescan
    \/ \E f \in Fragments : Intersect(f)
    \/ \E t \in TimerSet : WaitFire(t)
    \/ \E r \in bridge, l \in Locations : Response(r, l, FALSE)
    \/ \E t \in TimerSet : ContinueFire(t)
    \/ \E t \in TimerSet : PacingWake(t)
    \/ \E list \in BlockLists : BlocklistChanged(list)
    \/ \E a \in Fragments : ShowClick(a)
    \/ \E a \in Fragments : HideClick(a)

BlockSpec == BlockInit /\ [][BlockNext]_vars

\* ------------------------------------------------- markers and toggles
MarkerInit ==
    /\ timed = FALSE
    /\ now = 0
    /\ InitLayout(Timeline)
    /\ InitElements(Page)
    /\ blockedCountries = {}
    /\ locationCache = EmptyCache
    /\ InitHost
    /\ InitScheduler

MarkerNext ==
    \/ ProcessUsernames
    \/ Rescan
    \/ \E f \in Fragments : Intersect(f)
    \/ \E t \in TimerSet : WaitFire(t)
    \/ \E r \in bridge : Response(r, "Japan", FALSE)
    \/ \E r \in bridge : LateResponse(r)
    \/ \E t \in TimerSet : TimeoutFire(t)
    \/ \E t \in TimerSet : ContinueFire(t)
    \/ \E t \in TimerSet : PacingWake(t)
    \/ \E enabled \in BOOLEAN : ExtensionToggle(enabled)
    \/ \E t \in TimerSet : RescanFire(t)

MarkerSpec == MarkerInit /\ [][MarkerNext]_vars

\* ------------------------------------------------- the mutation watcher
MutationInit ==
    /\ timed = TRUE
    /\ now = StartTime
    /\ InitDocument(Single)
    /\ blockedCountries = {}
    /\ locationCache = EmptyCache
    /\ InitHost
    /\ InitScheduler

MutationNext ==
    \/ \E added \in BOOLEAN : MutationBatch(added)
    \/ \E t \in TimerSet : MutationScanFire(t)
    \/ \E f \in Fragments : Intersect(f)
    \/ \E r \in bridge : Response(r, "Japan", FALSE)
    \/ \E t \in TimerSet : TimeoutFire(t)
    \/ \E t \in TimerSet : ContinueFire(t)
    \/ Advance

MutationSpec == MutationInit /\ [][MutationNext]_vars

\* ------------------------------------------------- loading at start-up
MaxStore == 3

\* what one key of the stored object can hold
StoredShapes ==
    { LegacyString("Japan"), NullData, NoExpiryEntry("Japan"),
      ValidEntry("Russia"), ExpiredEntry("Japan"), ValidEntry(NullLoc) }

\* the stored objects of at most MaxStore keys, in key order
StoredObjects ==
    LET Keyed == [name : Names, data : StoredShapes]
    IN  UNION { { q \in [1..n -> Keyed] :
                    \A i, j \in 1..n : q[i].name = q[j].name => i = j } :
                n \in 0..MaxStore }

\* await loadCache() of init (line 1108)
LoadAtInit ==
    /\ event.op = "init"
    /\ Commit([Cur EXCEPT !.locationCache = LoadCache(@, storage)])
    /\ event' = Ev("load", "", "", NullLoc, FALSE)
    /\ Fixed

LoadInit ==
    /\ timed = FALSE
    /\ now = 0
    /\ InitDocument(Pair)
    /\ blockedCountries = {"Russia"}
    /\ day = StartDay
    /\ contextValid = TRUE
    /\ extensionEnabled = TRUE
    /\ storage \in StoredObjects
    /\ locationCache = EmptyCache
    /\ InitScheduler

LoadNext == LoadAtInit

LoadSpec == LoadInit /\ [][LoadNext]_vars

\* ------------------------------------------------ the queue, with fairness
\* three identities, more lookups than concurrency slots; no request is
\* answered, each is settled by its 10 s timeout
LiveInit ==
    /\ timed = FALSE
    /\ now = 0
    /\ InitDocument(Crowd)
    /\ blockedCountries = {"Russia"}
    /\ locationCache = EmptyCache
    /\ InitHost
    /\ InitScheduler

LiveNext ==
    \/ ProcessUsernames
    \/ \E f \in Fragments : Intersect(f)
    \/ \E t \in TimerSet : TimeoutFire(t)
    \/ \E t \in TimerSet : ContinueFire(t)
    \/ \E t \in TimerSet : PacingWake(t)
    \/ \E t \in TimerSet : RateCheckFire(t)
    \/ \E T \in ResetTimes : RateLimitInfo(T)

\* a re-check of line 238 that finds the reset time elapsed (line 242)
RecheckElapsed == \E t \in TimerSet : RateCheckFire(t) /\ rateLimitResetTime' = 0

\* the event loop runs every timer that is due; a reset time that is in force
\* elapses at some re-check
LiveFairness ==
    /\ WF_vars(\E t \in TimerSet : TimeoutFire(t))
    /\ WF_vars(\E t \in TimerSet : ContinueFire(t))
    /\ WF_vars(\E t \in TimerSet : PacingWake(t))
    /\ SF_vars(RecheckElapsed)

LiveSpec == LiveInit /\ [][LiveNext]_vars /\ LiveFairness

\* ================================================================== claims
\* the step just taken was the task op
Ran(op) == event'.seq # event.seq /\ event'.op = op

\* the step started a lookup request (line 262)
StartStep == pending' \ pending # {}

\* lookups for the identity that are queued or await a transport response
InFlight(n) ==
    Cardinality({i \in 1..Len(requestQueue) : requestQueue[i].screenName = n})
        + Cardinality({p \in pending : p.screenName = n})

\* drain loops suspended on the pacing delay
Sleepers == CountKind(timers, "pacing")

\* C1: for every identity at most one lookup is queued in the scheduler or
\* awaiting a transport response, in every reachable state.
C1_AtMostOneLookup == \A n \in Names : InFlight(n) <= 1

\* two fragments of carol were handed to addFlagToUsername during one lookup
C1_Witness ==
    /\ InFlight("carol") = 1
    /\ flagAdded["f1"] = "processing"
    /\ flagAdded["f2"] = "waiting"

\* nothing is left to run: no timer, no lookup, no fragment behind the gate
Quiescent ==
    /\ timers = EmptyBag
    /\ pending = {}
    /\ requestQueue = << >>
    /\ gate = {}

\* C2: a fragment put in state waiting reaches state done (flagAdded =
\* 'true') once the lookup of its identity has resolved and the annotation of
\* the fragment that made it is rendered: every waiting fragment resumed on
\* that occasion is done by the time nothing is left to run.
C2_WaitingBecomesDone ==
    Quiescent => \A g \in resumed : flagAdded[g] = "true"

\* C3: activeRequests stays between 0 and MAX_CONCURRENT_REQUESTS and equals
\* the number of requests started and not yet settled.
C3_ActiveRequests ==
    /\ 0 <= activeRequests
    /\ activeRequests <= MAX_CONCURRENT_REQUESTS
    /\ activeRequests = Cardinality(pending)

\* both slots taken and a third lookup held back in the queue
C3_Witness == activeRequests = MAX_CONCURRENT_REQUESTS /\ requestQueue # << >>

\* C4: at most one drain loop is active: the flag is set exactly while one
\* loop is suspended on the pacing delay, and while it is suspended only its
\* own resumption dequeues or starts anything.
C4_SingleDrainLoop ==
    /\ [](Sleepers <= 1 /\ (isProcessingQueue <=> Sleepers = 1))
    /\ [][(Sleepers >= 1 /\ ~Ran("wake"))
            => (requestQueue' = requestQueue
                \/ (Len(requestQueue') = Len(requestQueue) + 1
                    /\ SubSeq(requestQueue', 1, Len(requestQueue)) = requestQueue))
               /\ ~StartStep]_vars

\* a re-check timer ran while a drain loop was suspended, and left it alone
C4_Witness ==
    /\ event.op = "ratecheck"
    /\ Sleepers = 1
    /\ rateLimitResetTime > 0
    /\ requestQueue # << >>

\* C5: between two consecutive request starts at least currentRequestInterval,
\* as it stands at the later start, has passed.
C5_Spacing ==
    [][(StartStep /\ lastRequestTime > 0)
        => lastRequestTime' - lastRequestTime >= currentRequestInterval']_vars

\* C6: no request starts while a received hard rate-limit reset time has not
\* elapsed.
C6_NoStartBeforeReset ==
    [][StartStep
        => ~(rateLimitResetTime > 0 /\ now \div 1000 < rateLimitResetTime)]_vars

\* C7: currentRequestInterval stays between INITIAL_REQUEST_INTERVAL and
\* MAX_REQUEST_INTERVAL.
C7_IntervalBounds ==
    /\ INITIAL_REQUEST_INTERVAL <= currentRequestInterval
    /\ currentRequestInterval <= MAX_REQUEST_INTERVAL

\* the interval was driven to its ceiling and has begun to recover
C7_Witness ==
    /\ event.op = "response"
    /\ currentRequestInterval = MAX_REQUEST_INTERVAL - RECOVERY_STEP

\* C8 (as claimed): every soft rate-limited response leaves the interval
\* strictly greater than before, and at most MAX_REQUEST_INTERVAL.
C8_StrictIncrease ==
    [][(Ran("response") /\ event'.rl)
        => /\ currentRequestInterval' > currentRequestInterval
           /\ currentRequestInterval' <= MAX_REQUEST_INTERVAL]_vars

\* C8 (amended): a soft rate-limited response sets the interval to
\* min(MAX_REQUEST_INTERVAL, 2 x previous): strictly greater while the
\* previous value is below the ceiling, unchanged at the ceiling.
C8_BackoffStep ==
    [][(Ran("response") /\ event'.rl)
        => /\ currentRequestInterval' = Min(MAX_REQUEST_INTERVAL, 2 * currentRequestInterval)
           /\ currentRequestInterval' <= MAX_REQUEST_INTERVAL
           /\ (currentRequestInterval < MAX_REQUEST_INTERVAL
                 => currentRequestInterval' > currentRequestInterval)
           /\ (currentRequestInterval = MAX_REQUEST_INTERVAL
                 => currentRequestInterval' = currentRequestInterval)]_vars

\* a soft rate-limited response was handled with the interval at the ceiling
C8_Witness ==
    /\ event.op = "response"
    /\ event.rl
    /\ currentRequestInterval = MAX_REQUEST_INTERVAL

\* clean responses needed to bring the interval down to the floor
StepsToFloor(interval) == (interval - INITIAL_REQUEST_INTERVAL) \div RECOVERY_STEP

\* the values a run of clean responses passes through on its way down from
\* the interval: the floor plus a whole number of recovery steps
RecoveryPath(interval) ==
    {INITIAL_REQUEST_INTERVAL + k * RECOVERY_STEP : k \in 0..StepsToFloor(interval)}

\* C9: from every reachable interval a finite run of clean responses ends at
\* exactly INITIAL_REQUEST_INTERVAL and stays there: the interval is the floor
\* plus a whole number of steps, from every value on the way down a clean
\* response takes exactly one step off, and at the floor it changes nothing;
\* each clean response handled does just that to the interval, never taking
\* it below the floor.
C9_Recovery ==
    /\ [](/\ currentRequestInterval \in RecoveryPath(currentRequestInterval)
          /\ \A i \in RecoveryPath(currentRequestInterval) :
                /\ Recover(i) >= INITIAL_REQUEST_INTERVAL
                /\ (i > INITIAL_REQUEST_INTERVAL => Recover(i) = i - RECOVERY_STEP)
                /\ (i = INITIAL_REQUEST_INTERVAL => Recover(i) = INITIAL_REQUEST_INTERVAL))
    /\ [][(Ran("response") /\ ~event'.rl)
            => /\ currentRequestInterval' >= INITIAL_REQUEST_INTERVAL
               /\ (currentRequestInterval > INITIAL_REQUEST_INTERVAL
                     => currentRequestInterval' = currentRequestInterval - RECOVERY_STEP)
               /\ (currentRequestInterval = INITIAL_REQUEST_INTERVAL
                     => currentRequestInterval' = INITIAL_REQUEST_INTERVAL)]_vars

\* a clean response lowered the interval from twice the floor
C9_Witness ==
    /\ event.op = "response"
    /\ ~event.rl
    /\ currentRequestInterval = 2 * INITIAL_REQUEST_INTERVAL - RECOVERY_STEP

\* C10: handling a soft rate-limited response leaves the cache Map as it was
\* and arms no flush timer.
C10_RateLimitedNotCached ==
    [][(Ran("response") /\ event'.rl)
        => /\ locationCache' = locationCache
           /\ saveTimeout' = saveTimeout
           /\ CountKind(timers', "save") = CountKind(timers, "save")]_vars

\* a rate-limited response that carried a location was handled, and the
\* identity has no cache entry
C10_Witness ==
    /\ event.op = "response"
    /\ event.rl
    /\ event.loc # NullLoc
    /\ event.name \notin DOMAIN locationCache

\* C11: the task in which a started lookup times out resolves it with null
\* (its fragment is marked failed), leaves the cache Map, the flush timer and
\* currentRequestInterval as they were, removes the request from the unsettled
\* ones and lowers activeRequests by exactly one.
C11_TimeoutReleasesSlot ==
    [][Ran("timeout")
        => /\ flagAdded'[event'.frag] = "failed"
           /\ locationCache' = locationCache
           /\ saveTimeout' = saveTimeout
           /\ CountKind(timers', "save") = CountKind(timers, "save")
           /\ currentRequestInterval' = currentRequestInterval
           /\ activeRequests' = activeRequests - 1
           /\ Cardinality(pending') = Cardinality(pending) - 1
           /\ activeRequests' = Cardinality(pending')]_vars

\* a lookup timed out while the interval was backed off and the other slot
\* was still taken
C11_Witness ==
    /\ event.op = "timeout"
    /\ flagAdded[event.frag] = "failed"
    /\ event.name \notin DOMAIN locationCache
    /\ currentRequestInterval > INITIAL_REQUEST_INTERVAL
    /\ activeRequests = 1

\* C12: a transport response whose request has timed out is ignored: the task
\* that receives it changes nothing but the message being consumed; and every
\* response that is accepted settles exactly the request whose requestId and
\* screenName it carries.
C12_LateResponseIgnored ==
    /\ [][Ran("late")
            => UNCHANGED <<flagAdded, observed, gate, markers, processingUsernames,
                           locationCache, saveTimeout, requestQueue,
                           isProcessingQueue, lastRequestTime,
                           currentRequestInterval, activeRequests,
                           rateLimitResetTime, pending, timers>>]_vars
    /\ [][Ran("response")
            => \E r \in bridge \ bridge' :
                  /\ bridge \ bridge' = {r}
                  /\ pending \ pending' =
                        {p \in pending : p.id = r.id /\ p.screenName = r.screenName}
                  /\ Cardinality(pending \ pending') = 1]_vars

\* the response of a timed-out request arrived while a newer request for the
\* same identity was awaiting its own response, and left it alone
C12_Witness ==
    /\ event.op = "late"
    /\ \E p \in pending : p.screenName = event.name
    /\ currentRequestInterval > INITIAL_REQUEST_INTERVAL

\* C13: a fragment whose lookup timed out is marked failed, and the scan
\* pass that follows registers it with the visibility gate again, so that a
\* new lookup for its identity follows (failed -> processing).
C13_FailedRetriedByScan ==
    [][(event.op = "timeout" /\ Ran("scan"))
        => /\ flagAdded[event.frag] = "failed"
           /\ event.frag \in gate']_vars

\* the step hands the fragment to getUserLocation: it is the visibility
\* callback for a fragment that is not done and whose identity is not being
\* processed
LooksUp(f) ==
    /\ Ran("intersect")
    /\ event'.frag = f
    /\ flagAdded[f] # "true"
    /\ ident[f] \notin processingUsernames

\* the cache Map holds an attribute for the identity
Cached(n) == n \in DOMAIN locationCache /\ locationCache[n].location # NullLoc

\* the status addFlagToUsername gives a fragment for a location
Outcome(location) ==
    IF location \in blockedCountries THEN "blocked"
    ELSE IF location \in FlagLocations THEN "true" ELSE "failed"

\* C14: a lookup of an identity whose cached entry holds an attribute and has
\* not expired is answered from the cache in the same task: nothing is queued,
\* no request is started or sent, no timer armed, and the fragment gets the
\* status of the cached attribute, whatever the interval and the hard limit.
C14_CachedHitNoRequest ==
    [][\A f \in Fragments :
         (LooksUp(f) /\ Cached(ident[f])
            /\ Later(locationCache[ident[f]].expiry, Clock))
         => /\ requestQueue' = requestQueue
            /\ pending' = pending
            /\ bridge' = bridge
            /\ timers' = timers
            /\ activeRequests' = activeRequests
            /\ lastRequestTime' = lastRequestTime
            /\ flagAdded'[f] = Outcome(locationCache[ident[f]].location)]_vars

\* carol was annotated from the cache while bob's lookup was held back by a
\* hard limit and the interval was backed off
C14_Witness ==
    /\ event.op = "intersect"
    /\ event.name = "carol"
    /\ flagAdded[event.frag] = "true"
    /\ rateLimitResetTime > 0
    /\ currentRequestInterval > INITIAL_REQUEST_INTERVAL
    /\ pending = {}
    /\ bridge = {}

\* lookups queued or awaiting their response
Outstanding(queue, unsettled) == Len(queue) + Cardinality(unsettled)

\* C15: an entry whose expiry is not later than the clock is never served:
\* loadCache leaves no such entry in the Map, and a lookup of a key whose
\* entry has expired, before the load or in memory since, is a miss that
\* enqueues a request.
C15_ExpiredNeverServed ==
    /\ [](event.op = "init"
            => \A n \in DOMAIN locationCache : Later(locationCache[n].expiry, Clock))
    /\ [][\A f \in Fragments :
            (LooksUp(f) /\ ident[f] \in DOMAIN locationCache
               /\ ~Later(locationCache[ident[f]].expiry, Clock))
            => Outstanding(requestQueue', pending')
                 = Outstanding(requestQueue, pending) + 1]_vars

\* the step handled a response that is not rate-limited and carries a
\* location: saveCacheEntry was called with a non-null value
Puts == Ran("response") /\ ~event'.rl /\ event'.loc # NullLoc

\* C16: after a put of a non-null value the cache Map holds the key with that
\* value, created at the time of the put and expiring CACHE_EXPIRY_DAYS later,
\* whatever entry it held before, so that a lookup that follows is a hit; in
\* every state in which saveCacheEntry can be called.
C16_PutThenGet ==
    [][Puts
        => /\ event'.name \in DOMAIN locationCache'
           /\ locationCache'[event'.name].location = event'.loc
           /\ locationCache'[event'.name].cachedAt = Clock
           /\ locationCache'[event'.name].expiry
                = Ttl(locationCache'[event'.name].cachedAt)]_vars

\* the store holds the key with the entry's location and times
InStore(store, n, entry) ==
    \E i \in 1..Len(store) : store[i].name = n /\ store[i].data = Stored(entry)

C18_ClearEmptiesBoth ==
    [][Ran("clear")
        => /\ locationCache' = EmptyCache
           /\ storage' = << >>
           /\ timers' = timers
           /\ saveTimeout' = saveTimeout]_vars

\* the cache was cleared while the debounced flush of a put was still pending
C18_Witness ==
    /\ event.op = "clear"
    /\ CountKind(timers, "save") = 1
    /\ window # {}
    /\ locationCache = EmptyCache
    /\ storage = << >>

\* C19: after loadCache the cache Map holds every stored entry that is an
\* object with an expiry later than the clock and a non-null location, as
\* stored, and every stored legacy string as a full entry created at the time
\* of the load, whatever the other keys of the stored object hold.
C19_LoadsEveryValidEntry ==
    event.op = "load"
      => \A i \in 1..Len(storage) :
            LET n == storage[i].name
                d == storage[i].data
            IN  /\ ( /\ d.shape = "object"
                     /\ d.expiry # NoExpiry
                     /\ Later(d.expiry, Clock)
                     /\ d.location # NullLoc )
                      => /\ n \in DOMAIN locationCache
                         /\ Stored(locationCache[n]) = d
                /\ d.shape = "string"
                      => /\ n \in DOMAIN locationCache
                         /\ locationCache[n]
                              = [location |-> d.location, expiry |-> Ttl(Clock),
                                 cachedAt |-> Clock]

\* C20: right after an extensionToggle message with enabled = false is
\* handled, no container of the document has a marker or a shimmer, and each
\* is back in the state of a container no scan has seen: without a flagAdded
\* status, not marked observed and not registered with the visibility observer.
C20_DisableResetsFragments ==
    [][(Ran("toggle") /\ ~extensionEnabled')
        => \A f \in attached :
              /\ markers'[f] = 0
              /\ f \notin shimmers'
              /\ flagAdded'[f] = "none"
              /\ ~observed'[f]
              /\ f \notin gate']_vars

\* C21: when the scan that follows re-enabling has run, every container of
\* the document that is without a status (as the disable left the containers
\* processed before it) is registered with the visibility observer, so that
\* it is processed again once visible.
C21_ReenableReprocesses ==
    [][(Ran("rescan") /\ extensionEnabled)
        => \A f \in attached :
              flagAdded'[f] = "none" => f \in gate']_vars

\* the tweet article of the element, as rendered, or nothing for an element
\* outside any tweet
Rendering(tw, f) == IF article[f] = "" THEN NewTweet ELSE tw[article[f]]

EntryInLocation ==
    { <<"Japan", "japan">>, <<"Japan", "Japan">>,
      <<"Russia", "USS">>, <<"Russia", "Russia">> }

\* C23: when the lookup of a container's identity is answered with a
\* location, the container ends blocked, with the children of its tweet
\* hidden and the banner with the Show button displayed, if some block-list
\* entry is a case-insensitive substring of the location, and it does not
\* end blocked if none is.
C23_BlockedIffListed ==
    [][(Ran("response") /\ event'.loc # NullLoc)
        => LET f == event'.frag
               listed == \E country \in blockedCountries :
                            <<event'.loc, country>> \in EntryInLocation
           IN  /\ listed
                    => /\ flagAdded'[f] = "blocked"
                       /\ article[f] # ""
                       /\ tweets'[article[f]].children = "none"
                       /\ tweets'[article[f]].banner = "flex"
               /\ ~listed => flagAdded'[f] # "blocked"]_vars

\* banner displayed, original children hidden, no Hide button
Hidden(tw) == tw.banner = "flex" /\ tw.children = "none" /\ tw.hideBtns = 0

\* banner not displayed, original children displayed, one Hide button
Revealed(tw) == tw.banner = "none" /\ tw.children = "" /\ tw.hideBtns = 1

\* C24: a blocked tweet is always in one of two display states, banner shown
\* with the content hidden or banner hidden with the content shown and exactly
\* one Hide button; Show takes it from the first to the second, Hide from the
\* second back to the first, and neither enqueues a lookup or sends a request.
C24_RevealRehideAlternate ==
    /\ [](\A a \in Fragments :
             tweets[a].blocked => Hidden(tweets[a]) \/ Revealed(tweets[a]))
    /\ [][Ran("show")
            => /\ Hidden(tweets[event'.frag])
               /\ Revealed(tweets'[event'.frag])]_vars
    /\ [][Ran("hide")
            => /\ Revealed(tweets[event'.frag])
               /\ Hidden(tweets'[event'.frag])]_vars
    /\ [][(Ran("show") \/ Ran("hide"))
            => UNCHANGED <<requestQueue, pending, bridge, activeRequests,
                           locationCache, flagAdded>>]_vars

\* a blocked tweet that was revealed and has been hidden again
C24_Witness ==
    /\ event.op = "hide"
    /\ tweets[event.frag].blocked
    /\ Hidden(tweets[event.frag])
    /\ \E f \in attached : article[f] = event.frag /\ flagAdded[f] = "blocked"

\* C25: every tweet article holds the children it was rendered with in every
\* state; the steps that block a tweet, reveal it and hide it again change
\* the display of those children and nothing else about them.
C25_ContentNeverRemoved ==
    /\ [](\A a \in Fragments : tweets[a].nodes = OriginalChildren)
    /\ [][\A a \in Fragments :
             tweets'[a] # tweets[a] => tweets'[a].nodes = tweets[a].nodes]_vars

\* a tweet that was blocked and then revealed shows all its children again
C25_Witness ==
    /\ event.op = "show"
    /\ tweets[event.frag].blocked
    /\ tweets[event.frag].children = ""
    /\ tweets[event.frag].nodes = OriginalChildren

\* the lookups made for the container that are queued or await their response
LookupsFor(queue, unsettled, f) ==
    Cardinality({i \in 1..Len(queue) : queue[i].frag = f})
        + Cardinality({p \in unsettled : p.frag = f})

\* C26: once a container's status is true, no step (scan, block-list change,
\* visibility callback, re-trigger of waiting containers, response) changes
\* its status, registers it with the visibility observer again, makes a
\* lookup for it or adds a marker for it: it keeps holding exactly one marker.
C26_DoneIsFinal ==
    [][\A f \in attached :
          flagAdded[f] = "true"
            => /\ flagAdded'[f] = "true"
               /\ f \notin gate'
               /\ LookupsFor(requestQueue', pending', f)
                    <= LookupsFor(requestQueue, pending, f)
               /\ markers'[f] = markers[f]
               /\ FlagsIn(markers', f) = 1]_vars

\* a scan has run, after a block-list change, over a page on which a container
\* is done with its marker and the other container of its tweet is done too
C26_Witness ==
    /\ event.op = "scan"
    /\ \E f \in attached : flagAdded[f] = "true" /\ markers[f] = 1
    /\ \E f \in attached : flagAdded[f] = "true" /\ markers[f] = 0
    /\ blockedCountries # {}

\* C27: in every reachable state every container holds at most one marker
\* span, counting the spans inserted for the other containers of its tweet.
C27_AtMostOneMarker ==
    \A f \in attached : FlagsIn(markers, f) <= 1

\* after a disable and re-enable, a container was annotated from the cache
\* while the other container of its tweet found that marker and took it over
C27_Witness ==
    /\ extensionEnabled
    /\ \E t \in TimerSet : t.kind = "rescan"
    /\ \E f, g \in attached :
          /\ f # g
          /\ article[f] = article[g]
          /\ flagAdded[f] = "true" /\ markers[f] = 1
          /\ flagAdded[g] = "true" /\ markers[g] = 0

\* C28: over any number of scans a container is registered with the
\* visibility observer at most once and handed by it to addFlagToUsername at
\* most once, and the callback that hands it over has unregistered it.
C28_HandedAtMostOnce ==
    /\ [](\A f \in Fragments :
             /\ gateLog[f].registered <= 1
             /\ gateLog[f].handed <= gateLog[f].registered
             /\ f \in gate => gateLog[f].handed = 0)
    /\ [][Ran("intersect")
            => /\ event'.frag \in gate
               /\ event'.frag \notin gate'
               /\ gateLog'[event'.frag].handed = 1]_vars

\* a scan has run again over a container that had been handed over and whose
\* lookup failed: it is not registered again
C28_Witness ==
    /\ event.op = "scan"
    /\ \E f \in attached :
          /\ gateLog[f].handed = 1
          /\ flagAdded[f] = "failed"
          /\ f \notin gate

\* the identities with a lookup that is queued or awaits its response
LookedUp(queue, unsettled) ==
    {queue[i].screenName : i \in 1..Len(queue)} \cup {p.screenName : p \in unsettled}

\* C29: every lookup that is queued or awaits its response is for an identity
\* of which some container has been handed over by the visibility observer,
\* and was made for a container that has been; a scan, from whatever source,
\* registers containers and enqueues and starts nothing.
C29_LookupOnlyWhenVisible ==
    /\ [](/\ \A n \in LookedUp(requestQueue, pending) :
                \E f \in Fragments : ident[f] = n /\ gateLog[f].handed > 0
          /\ \A f \in Fragments :
                gateLog[f].handed = 0 => LookupsFor(requestQueue, pending, f) = 0)
    /\ [][(Ran("scan") \/ Ran("rescan") \/ Ran("blocklist"))
            => UNCHANGED <<requestQueue, pending, bridge, activeRequests>>]_vars

\* bob's container is registered and has never become visible, no lookup for
\* bob exists, while the lookup for carol, whose container became visible,
\* awaits its response
C29_Witness ==
    /\ \E f \in gate :
          /\ gateLog[f].handed = 0
          /\ ident[f] \notin LookedUp(requestQueue, pending)
          /\ ident[f] \notin DOMAIN locationCache
    /\ \E p \in pending : gateLog[p.frag].handed = 1
    /\ event.op = "rescan"

\* C30: at most one scan timer of the mutation watcher is pending at any
\* time, and when it fires and the scan runs no further scan of the watcher
\* is pending: the batches that arrived during its delay got that one scan.
C30_RescanDebounced ==
    /\ [](CountKind(timers, "mutation") <= 1)
    /\ [][Ran("mscan") => CountKind(timers', "mutation") = 0]_vars

\* the re-check timers armed at line 238 and not yet run
Rechecks == CountKind(timers, "ratecheck")

\* C31: while a hard rate limit is in force at most one re-check of the queue
\* is pending, whatever number of lookups are enqueued or complete meanwhile.
C31_OneRecheckPending ==
    (rateLimitResetTime > 0 /\ now \div 1000 < rateLimitResetTime)
        => Rechecks <= 1

\* C32: no fragment stays in state waiting after the lookup of its identity
\* has finished, with any outcome: once nothing is left to run (no lookup
\* queued or in flight, no timer pending, no fragment behind the gate) no
\* fragment is waiting.
C32_NoWaitingLeft ==
    Quiescent => \A f \in Fragments : flagAdded[f] # "waiting"

\* something pending will call processRequestQueue again or carry the loop
\* on: the loop suspended on its pacing delay, the 200 ms timer of a settled
\* request, a re-check of the rate limit, or a request in flight (whose
\* response or 10 s timeout settles it and arms the 200 ms timer)
Restartable ==
    \/ isProcessingQueue /\ Sleepers > 0
    \/ CountKind(timers, "continue") > 0
    \/ Rechecks > 0
    \/ \E p \in pending : CountKind(timers, "timeout") > 0

\* C33: the queue never holds items while no drain loop is running and
\* nothing that restarts one is pending, and every lookup pushed on the queue
\* is eventually started and settled, given that a rate-limit reset time in
\* force eventually elapses.
C33_QueueDrains ==
    /\ [](requestQueue # << >> => Restartable)
    /\ []<>(requestQueue = << >> /\ pending = {})

\* a lookup held in the queue behind a full set of slots during a hard limit
C33_Witness ==
    /\ requestQueue # << >>
    /\ activeRequests = MAX_CONCURRENT_REQUESTS
    /\ rateLimitResetTime > 0
    /\ ~isProcessingQueue

\* C34: while the extension is disabled no container acquires a marker, a
\* block banner or a processing status and no lookup is enqueued: a task
\* that runs with extensionEnabled false, and leaves it false, adds none of
\* these, also for a container registered with the visibility observer and
\* for a lookup in flight since before the disable.
C34_DisabledIsInert ==
    [][(~extensionEnabled /\ ~extensionEnabled')
        => /\ \A f \in Fragments :
                /\ markers'[f] <= markers[f]
                /\ flagAdded'[f] \in {flagAdded[f], "none"}
                /\ tweets'[f].blocked => tweets[f].blocked
           /\ Len(requestQueue') + Cardinality(pending')
                <= Len(requestQueue) + Cardinality(pending)]_vars

\* the cache Map holds an entry for the identity whose location is null
CachedNull(n) == n \in DOMAIN locationCache /\ locationCache[n].location = NullLoc

\* C35: a null lookup result is never served as a cache hit and never written
\* to storage: a lookup of an identity for which the Map holds no attribute (a
\* null entry, or none after a timeout) enqueues one new request, a null
\* entry being deleted from the Map by that lookup; and the object a run of
\* saveCache writes has no key whose location is null.
C35_NullNeverServedNorStored ==
    /\ [][\A f \in Fragments :
            (LooksUp(f) /\ ~Cached(ident[f]))
              => /\ Outstanding(requestQueue', pending')
                      = Outstanding(requestQueue, pending) + 1
                 /\ ident[f] \notin DOMAIN locationCache'
                 /\ flagAdded'[f] = "processing"]_vars
    /\ [][Ran("save")
            => \A i \in 1..Len(storage') : storage'[i].data.location # NullLoc]_vars

\* both containers of carol were looked up, one after the other's result
\* was null, and a flush has run with her null entry in the Map, writing a
\* store that holds another identity
C35_Witness ==
    /\ event.op = "save"
    /\ CachedNull("carol")
    /\ flagAdded["f1"] = "failed"
    /\ flagAdded["f2"] = "failed"
    /\ storage # << >>


====
